---- MODULE Spec2Model ----
(***************************************************************************)
(* Model of bot_main.py: the signal pipeline (fetch_market_data,           *)
(* generate_signal, analyze_all_pairs) and the auto-signal scheduler       *)
(* (start, stop, signal handlers and auto_signal_loop).                    *)
(*                                                                         *)
(* Execution model (asyncio, Python >= 3.8, python-telegram-bot >= 20):    *)
(*  - code between two awaits runs atomically on the single event loop;    *)
(*    analyze_all_pairs is synchronous (requests.get blocks the loop), so  *)
(*    from the start of a scan to its end nothing else runs (Blocked);     *)
(*  - the Application built at line 151 keeps the default                  *)
(*    concurrent_updates = False and the CommandHandlers keep block=True,  *)
(*    so the dispatcher awaits one handler to completion before it takes   *)
(*    the next update; a handler suspended at a reply await interleaves    *)
(*    with the auto_signal_loop task, not with another handler;            *)
(*  - Task.cancel() marks the task; at its next step CancelledError is     *)
(*    thrown into it. CancelledError derives from BaseException, so the    *)
(*    loop's "except Exception" does not catch it.                         *)
(***************************************************************************)
EXTENDS Integers, Sequences, FiniteSets, TLC

\* ---------------------------------------------------------------- bounds
MaxPrice == 3          \* prices and indicator values range over 1..MaxPrice
MaxTasks == 2          \* auto_signal_loop tasks created in one run
NumChats == 2          \* distinct chat ids issuing commands

\* ------------------------------------------------------ program constants
EmaWindow  == 50       \* ta.trend.ema_indicator(..., window=50)
BandWindow == 20       \* BollingerBands(..., window=20, ...)
Limit      == 100      \* fetch_market_data(symbol, "1m", 100)
NaN        == 0        \* pandas NaN: an indicator value without enough history
None       == 0        \* Python None for auto_signal_task / chat_id_global

Prices == 1..MaxPrice
Chats  == 1..NumChats
TaskIds == 1..MaxTasks

\* the configured basket, in dict insertion order
pairs == << <<"EUR/USD", "EURUSDT">>, <<"GBP/USD", "GBPUSDT">>,
            <<"USD/JPY", "USDJPY">>,  <<"USD/CHF", "USDCHF">>,
            <<"AUD/USD", "AUDUSDT">>, <<"NZD/USD", "NZDUSDT">>,
            <<"USD/CAD", "USDCAD">> >>

\* the texts generate_signal returns
NoData     == "No data available"
StrongBuy  == "BUY (UP) - Price crossed above EMA50"
StrongSell == "SELL (DOWN) - Price crossed below EMA50"
WeakBuy    == "Weak BUY (Near upper band)"
WeakSell   == "Weak SELL (Near lower band)"
Neutral    == "No clear signal"
IndexError == "IndexError"     \* df.iloc[-2] on a one-row frame raises

VARIABLES
  \* --- scheduler (module globals, tasks, the handler being dispatched)
  auto_signal_running, auto_signal_task, chat_id_global,
  tasks, handler,
  \* --- one run of analyze_all_pairs
  feeds, scan_result,
  \* --- one run of generate_signal
  df, sig

sched_vars == <<auto_signal_running, auto_signal_task, chat_id_global,
                tasks, handler>>
scan_vars  == <<feeds, scan_result>>
cls_vars   == <<df, sig>>
vars == <<auto_signal_running, auto_signal_task, chat_id_global,
          tasks, handler, feeds, scan_result, df, sig>>

\* ===================================================== signal pipeline
\* What the provider answers to one klines request: a transport/HTTP/parse
\* error, or n candles. Of the candles only the last two closes are read; the
\* values lib `ta` computes from them are carried as ema_* / bb_* and are
\* masked by the rows' history below.
Frames(lengths) ==
  [ok : {TRUE}, n : lengths,
   close_latest : Prices, close_prev : Prices,
   ema_latest : Prices, ema_prev : Prices,
   bb_bbm : Prices, bb_bbh : Prices, bb_bbl : Prices]

WellFormed(r) == r.bb_bbl <= r.bb_bbm /\ r.bb_bbm <= r.bb_bbh

EmptyDF == [ok |-> TRUE, n |-> 0, close_latest |-> 1, close_prev |-> 1,
            ema_latest |-> 1, ema_prev |-> 1,
            bb_bbm |-> 1, bb_bbh |-> 1, bb_bbl |-> 1]

FetchError == [EmptyDF EXCEPT !.ok = FALSE]

\* fetch_market_data: any exception yields an empty DataFrame
fetch_market_data(response) ==
  IF response.ok THEN response ELSE EmptyDF

\* comparisons on floats: anything compared with NaN is False
Gt_or_equal(a, b) == a # NaN /\ b # NaN /\ a >= b

Gt(a, b) == a # NaN /\ b # NaN /\ a > b
Lt(a, b) == a # NaN /\ b # NaN /\ a < b

\* ta's indicators are NaN until `window` rows of history exist;
\* row is the 1-based position of the row in the frame
EMA50(value, row)  == IF row >= EmaWindow THEN value ELSE NaN
BBand(value, row)  == IF row >= BandWindow THEN value ELSE NaN

latest_row(d) ==
  [Close |-> d.close_latest, EMA50 |-> EMA50(d.ema_latest, d.n),
   bb_bbm |-> BBand(d.bb_bbm, d.n), bb_bbh |-> BBand(d.bb_bbh, d.n),
   bb_bbl |-> BBand(d.bb_bbl, d.n)]

previous_row(d) ==
  [Close |-> d.close_prev, EMA50 |-> EMA50(d.ema_prev, d.n - 1)]

generate_signal_bands_first(d) ==
  IF d.n = 0 THEN NoData
  ELSE IF d.n < 2 THEN IndexError
  ELSE LET latest == latest_row(d)
           previous == previous_row(d)
       IN IF Gt(latest.Close, latest.bb_bbm) /\ Lt(latest.Close, latest.bb_bbh)
            THEN WeakBuy
          ELSE IF Lt(latest.Close, latest.bb_bbm) /\ Gt(latest.Close, latest.bb_bbl)
            THEN WeakSell
          ELSE IF Gt(latest.Close, latest.EMA50) /\ Lt(previous.Close, previous.EMA50)
            THEN StrongBuy
          ELSE IF Lt(latest.Close, latest.EMA50) /\ Gt(previous.Close, previous.EMA50)
            THEN StrongSell
          ELSE Neutral

generate_signal(d) ==
  IF d.n = 0 THEN NoData
  ELSE IF d.n < 2 THEN IndexError
  ELSE LET latest == latest_row(d)
           previous == previous_row(d)
       IN IF Gt(latest.Close, latest.EMA50) /\ Lt(previous.Close, previous.EMA50)
            THEN StrongBuy
          ELSE IF Lt(latest.Close, latest.EMA50) /\ Gt(previous.Close, previous.EMA50)
            THEN StrongSell
          ELSE IF Gt(latest.Close, latest.bb_bbm) /\ Lt(latest.Close, latest.bb_bbh)
            THEN WeakBuy
          ELSE IF Lt(latest.Close, latest.bb_bbm) /\ Gt(latest.Close, latest.bb_bbl)
            THEN WeakSell
          ELSE Neutral

\* the for-loop of analyze_all_pairs from pair i on, results so far in acc;
\* an exception out of generate_signal leaves the function without a report
RECURSIVE scan_from(_, _, _)
scan_from(i, acc, responses) ==
  IF i > Len(pairs) THEN [kind |-> "report", entries |-> acc]
  ELSE LET name == pairs[i][1]
           d == fetch_market_data(responses[i])
           signal == generate_signal(d)
       IN IF signal = IndexError
            THEN [kind |-> "raised", entries |-> <<>>]
            ELSE scan_from(i + 1, Append(acc, <<name, signal>>), responses)

RECURSIVE scan_from_skip_failed(_, _, _)
scan_from_skip_failed(i, acc, responses) ==
  IF i > Len(pairs) THEN [kind |-> "report", entries |-> acc]
  ELSE LET name == pairs[i][1]
           d == fetch_market_data(responses[i])
           signal == generate_signal(d)
       IN IF signal = IndexError
            THEN [kind |-> "raised", entries |-> <<>>]
          ELSE IF d.n = 0
            THEN scan_from_skip_failed(i + 1, acc, responses)
            ELSE scan_from_skip_failed(i + 1, Append(acc, <<name, signal>>), responses)

analyze_all_pairs_skip_failed(responses) == scan_from_skip_failed(1, <<>>, responses)

analyze_all_pairs(responses) == scan_from(1, <<>>, responses)

\* ------------------------------------------- specification: one classify
ClassifyLengths == {0, 1, 2, BandWindow - 1, BandWindow, EmaWindow - 1,
                    EmaWindow, EmaWindow + 1, Limit}

NotRun == "not run"

InitClassify ==
  /\ df \in {r \in Frames(ClassifyLengths) : WellFormed(r)}
  /\ sig = NotRun
  /\ auto_signal_running = FALSE /\ auto_signal_task = None
  /\ chat_id_global = None /\ tasks = <<>> /\ handler = <<>>
  /\ feeds = <<>> /\ scan_result = <<>>

Classify ==
  /\ sig = NotRun
  /\ sig' = generate_signal(df)
  /\ UNCHANGED <<df, sched_vars, scan_vars>>

NextClassify == Classify

SpecClassify == InitClassify /\ [][NextClassify]_vars

\* ------------------------------------------------ specification: one scan
\* what each of the seven requests of one scan may get back
FullCross  == [ok |-> TRUE, n |-> Limit, close_latest |-> 2, close_prev |-> 1,
               ema_latest |-> 1, ema_prev |-> 2,
               bb_bbm |-> 1, bb_bbh |-> 3, bb_bbl |-> 1]
FullBelow  == [ok |-> TRUE, n |-> Limit, close_latest |-> 2, close_prev |-> 2,
               ema_latest |-> 2, ema_prev |-> 2,
               bb_bbm |-> 3, bb_bbh |-> 3, bb_bbl |-> 1]
ShortOne   == [FullCross EXCEPT !.n = 1]
ShortBand  == [FullBelow EXCEPT !.n = BandWindow]

Responses == {FetchError, FullCross, FullBelow, ShortOne, ShortBand}

InitScan ==
  /\ feeds \in [1..Len(pairs) -> Responses]
  /\ scan_result = [kind |-> NotRun, entries |-> <<>>]
  /\ auto_signal_running = FALSE /\ auto_signal_task = None
  /\ chat_id_global = None /\ tasks = <<>> /\ handler = <<>>
  /\ df = EmptyDF /\ sig = NotRun

Scan ==
  /\ scan_result.kind = NotRun
  /\ scan_result' = analyze_all_pairs(feeds)
  /\ UNCHANGED <<feeds, sched_vars, cls_vars>>

NextScan == Scan

SpecScan == InitScan /\ [][NextScan]_vars

\* ================================================== auto-signal scheduler
\* tasks[t] is the asyncio task of the t-th auto_signal_loop coroutine:
\*   pc          "none" (not created), "created" (scheduled, not yet run),
\*               "scanning" (inside analyze_all_pairs), "sending" (await
\*               bot.send_message), "sleeping" (await asyncio.sleep(300)),
\*               "done" (returned), "cancelled"
\*   chat_id     the coroutine's chat_id argument
\*   must_cancel Task.cancel() was called and CancelledError is pending
\*   tick        flips each time the loop begins an iteration
\*   last        "failed" when the last finished iteration logged an error
\*   halted      history: a stop() that found the flag set ran while this
\*               loop was in its interval wait
\* A task that has ended, or whose cancellation is pending, never runs its
\* body again: its locals (chat_id, tick, last) are dropped.
\* handler is the update handler the dispatcher is awaiting (the chat a reply
\* goes to is not kept); found_running is what its test of the flag saw, and
\* after_start tells, for a /start, that the handler dispatched before it was
\* a /start too.
NoTask == [pc |-> "none", chat_id |-> None, must_cancel |-> FALSE,
           tick |-> FALSE, last |-> "ok", halted |-> FALSE]

NoHandler == [kind |-> "none", pc |-> "idle", found_running |-> FALSE,
              after_start |-> FALSE]

\* the answers one scan's seven requests may get
AllFull   == [i \in 1..Len(pairs) |-> FullCross]
OneFailed == [AllFull EXCEPT ![3] = FetchError]
OneShort  == [AllFull EXCEPT ![5] = ShortOne]
Scenarios == {AllFull, OneFailed, OneShort}

\* how a call of analyze_all_pairs can end: "report" or "raised"
ScanOutcomes == {analyze_all_pairs(r).kind : r \in Scenarios}

Init ==
  /\ auto_signal_running = FALSE
  /\ auto_signal_task = None
  /\ chat_id_global = None
  /\ tasks = [t \in TaskIds |-> NoTask]
  /\ handler = NoHandler
  /\ feeds = <<>> /\ scan_result = <<>>
  /\ df = EmptyDF /\ sig = NotRun

\* analyze_all_pairs is a synchronous call: while a task or a handler is
\* inside it the event loop runs nothing else
Blocked == handler.pc = "scanning" \/ \E t \in TaskIds : tasks[t].pc = "scanning"

\* the dispatcher takes the next update only when the previous handler ended
HandlerFree == handler.pc \in {"idle", "done", "raised"} /\ ~Blocked

Suspended(t) == tasks[t].pc \in {"created", "scanning", "sending", "sleeping"}

\* a loop that was created and has neither finished nor been cancelled
Live(t) == Suspended(t) /\ ~tasks[t].must_cancel
LiveLoops == {t \in TaskIds : Live(t)}

DropLocals(task) == [task EXCEPT !.chat_id = None, !.tick = FALSE, !.last = "ok"]

EndAs(t, how) == [DropLocals(tasks[t]) EXCEPT !.pc = how, !.must_cancel = FALSE]

\* asyncio.Task.cancel(): no effect on a task that is done
cancel_ignored(ts, h) == ts

cancel(ts, h) ==
  IF h = None \/ ts[h].pc \in {"done", "cancelled"} THEN ts
  ELSE [ts EXCEPT ![h] = [DropLocals(ts[h]) EXCEPT !.must_cancel = TRUE]]

mark_halted(ts) ==
  [t \in TaskIds |-> IF ts[t].pc = "sleeping"
                       THEN [ts[t] EXCEPT !.halted = TRUE] ELSE ts[t]]

\* ---- /start: lines 103-109 up to the await of the reply
start_unguarded(c) ==
  /\ HandlerFree
  /\ \E t \in TaskIds : tasks[t].pc = "none"
  /\ chat_id_global' = c
  /\ auto_signal_running' = TRUE
  /\ handler' = [kind |-> "start", pc |-> "reply_started",
                 found_running |-> FALSE,
                 after_start |-> (handler.kind = "start")]
  /\ UNCHANGED <<auto_signal_task, tasks, scan_vars, cls_vars>>

start(c) ==
  /\ HandlerFree
  /\ auto_signal_running \/ \E t \in TaskIds : tasks[t].pc = "none"
  /\ chat_id_global' = c
  /\ IF auto_signal_running
       THEN /\ handler' = [kind |-> "start", pc |-> "reply_already",
                           found_running |-> TRUE,
                           after_start |-> (handler.kind = "start")]
            /\ UNCHANGED auto_signal_running
       ELSE /\ auto_signal_running' = TRUE
            /\ handler' = [kind |-> "start", pc |-> "reply_started",
                           found_running |-> FALSE,
                           after_start |-> (handler.kind = "start")]
  /\ UNCHANGED <<auto_signal_task, tasks, scan_vars, cls_vars>>

\* ---- /start: the reply returns or raises; line 111 creates the task
start_reply(ok) ==
  /\ ~Blocked
  /\ handler.kind = "start"
  /\ handler.pc \in {"reply_already", "reply_started"}
  /\ IF ~ok
       THEN /\ handler' = [handler EXCEPT !.pc = "raised"]
            /\ UNCHANGED <<auto_signal_task, tasks>>
       ELSE IF handler.pc = "reply_already"
         THEN /\ handler' = [handler EXCEPT !.pc = "done"]
              /\ UNCHANGED <<auto_signal_task, tasks>>
         ELSE LET t == CHOOSE u \in TaskIds :
                         /\ tasks[u].pc = "none"
                         /\ \A v \in TaskIds : tasks[v].pc = "none" => u <= v
              IN /\ tasks' = [tasks EXCEPT ![t] =
                                [NoTask EXCEPT !.pc = "created",
                                               !.chat_id = chat_id_global]]
                 /\ auto_signal_task' = t
                 /\ handler' = [handler EXCEPT !.pc = "done"]
  /\ UNCHANGED <<auto_signal_running, chat_id_global, scan_vars, cls_vars>>

\* ---- /stop: lines 117-123 up to the await of the reply
stop_keeps_task ==
  /\ HandlerFree
  /\ IF auto_signal_running
       THEN /\ auto_signal_running' = FALSE
            /\ tasks' = mark_halted(tasks)
            /\ handler' = [kind |-> "stop", pc |-> "reply_stopped",
                           found_running |-> TRUE, after_start |-> FALSE]
       ELSE /\ handler' = [kind |-> "stop", pc |-> "reply_not_running",
                           found_running |-> FALSE, after_start |-> FALSE]
            /\ UNCHANGED <<auto_signal_running, tasks>>
  /\ UNCHANGED <<auto_signal_task, chat_id_global, scan_vars, cls_vars>>

stop_unguarded ==
  /\ HandlerFree
  /\ auto_signal_running' = FALSE
  /\ tasks' = cancel(mark_halted(tasks), auto_signal_task)
  /\ handler' = [kind |-> "stop", pc |-> "reply_stopped",
                 found_running |-> TRUE, after_start |-> FALSE]
  /\ UNCHANGED <<auto_signal_task, chat_id_global, scan_vars, cls_vars>>

stop ==
  /\ HandlerFree
  /\ IF auto_signal_running
       THEN /\ auto_signal_running' = FALSE
            /\ tasks' = cancel(mark_halted(tasks), auto_signal_task)
            /\ handler' = [kind |-> "stop", pc |-> "reply_stopped",
                           found_running |-> TRUE, after_start |-> FALSE]
       ELSE /\ handler' = [kind |-> "stop", pc |-> "reply_not_running",
                           found_running |-> FALSE, after_start |-> FALSE]
            /\ UNCHANGED <<auto_signal_running, tasks>>
  /\ UNCHANGED <<auto_signal_task, chat_id_global, scan_vars, cls_vars>>

stop_reply(ok) ==
  /\ ~Blocked
  /\ handler.kind = "stop"
  /\ handler.pc \in {"reply_stopped", "reply_not_running"}
  /\ handler' = [handler EXCEPT !.pc = IF ok THEN "done" ELSE "raised"]
  /\ UNCHANGED <<auto_signal_running, auto_signal_task, chat_id_global,
                 tasks, scan_vars, cls_vars>>

\* ---- /signal: line 127 up to the await of the first reply
signal ==
  /\ HandlerFree
  /\ handler' = [kind |-> "signal", pc |-> "reply_fetching",
                 found_running |-> FALSE, after_start |-> FALSE]
  /\ UNCHANGED <<auto_signal_running, auto_signal_task, chat_id_global,
                 tasks, scan_vars, cls_vars>>

\* ---- /signal: a reply returns or raises; after the first one the handler
\* enters analyze_all_pairs inside the try
signal_reply(ok) ==
  /\ ~Blocked
  /\ handler.kind = "signal"
  /\ \/ /\ handler.pc = "reply_fetching"
        /\ handler' = [handler EXCEPT !.pc = IF ok THEN "scanning" ELSE "raised"]
     \/ /\ handler.pc = "reply_results"
        /\ handler' = [handler EXCEPT !.pc = IF ok THEN "done" ELSE "reply_error"]
     \/ /\ handler.pc = "reply_error"
        /\ handler' = [handler EXCEPT !.pc = IF ok THEN "done" ELSE "raised"]
  /\ UNCHANGED <<auto_signal_running, auto_signal_task, chat_id_global,
                 tasks, scan_vars, cls_vars>>

\* ---- /signal: analyze_all_pairs returns its report or raises (line 129)
signal_scanned ==
  /\ handler.pc = "scanning"
  /\ \E outcome \in ScanOutcomes :
       handler' = [handler EXCEPT !.pc =
          IF outcome = "raised" THEN "reply_error" ELSE "reply_results"]
  /\ UNCHANGED <<auto_signal_running, auto_signal_task, chat_id_global,
                 tasks, scan_vars, cls_vars>>

\* ---- auto_signal_loop: the while test; an iteration enters the scan
loop_iterate(t) ==
  IF ~auto_signal_running
    THEN tasks' = [tasks EXCEPT ![t] = EndAs(t, "done")]
    ELSE tasks' = [tasks EXCEPT ![t].pc = "scanning",
                                ![t].tick = ~tasks[t].tick]

\* ---- auto_signal_loop: analyze_all_pairs returns and the send starts, or
\* it raises, the except clause logs and the task awaits the sleep
loop_scanned_no_catch(t) ==
  /\ tasks[t].pc = "scanning"
  /\ \E outcome \in ScanOutcomes :
       tasks' = [tasks EXCEPT ![t] =
         IF outcome = "raised"
           THEN EndAs(t, "done")
           ELSE [tasks[t] EXCEPT !.pc = "sending"]]
  /\ UNCHANGED <<auto_signal_running, auto_signal_task, chat_id_global,
                 handler, scan_vars, cls_vars>>

loop_scanned(t) ==
  /\ tasks[t].pc = "scanning"
  /\ \E outcome \in ScanOutcomes :
       tasks' = [tasks EXCEPT ![t] =
         IF outcome = "raised"
           THEN [tasks[t] EXCEPT !.pc = "sleeping", !.last = "failed"]
           ELSE [tasks[t] EXCEPT !.pc = "sending"]]
  /\ UNCHANGED <<auto_signal_running, auto_signal_task, chat_id_global,
                 handler, scan_vars, cls_vars>>

\* the event loop runs the new task for the first time
loop_start(t) ==
  /\ ~Blocked
  /\ tasks[t].pc = "created"
  /\ IF tasks[t].must_cancel
       THEN tasks' = [tasks EXCEPT ![t] = EndAs(t, "cancelled")]
       ELSE loop_iterate(t)
  /\ UNCHANGED <<auto_signal_running, auto_signal_task, chat_id_global,
                 handler, scan_vars, cls_vars>>

\* bot.send_message returns or raises; then the task awaits the sleep
loop_sent_no_sleep(t, ok) ==
  /\ ~Blocked
  /\ tasks[t].pc = "sending"
  /\ IF tasks[t].must_cancel
       THEN tasks' = [tasks EXCEPT ![t] = EndAs(t, "cancelled")]
       ELSE loop_iterate(t)
  /\ UNCHANGED <<auto_signal_running, auto_signal_task, chat_id_global,
                 handler, scan_vars, cls_vars>>

loop_sent_clears_flag(t, ok) ==
  /\ ~Blocked
  /\ tasks[t].pc = "sending"
  /\ IF tasks[t].must_cancel
       THEN tasks' = [tasks EXCEPT ![t] = EndAs(t, "cancelled")]
       ELSE tasks' = [tasks EXCEPT ![t].pc = "sleeping",
                                   ![t].last = IF ok THEN "ok" ELSE "failed"]
  /\ auto_signal_running' = (auto_signal_running /\ ok)
  /\ UNCHANGED <<auto_signal_task, chat_id_global,
                 handler, scan_vars, cls_vars>>

loop_sent(t, ok) ==
  /\ ~Blocked
  /\ tasks[t].pc = "sending"
  /\ IF tasks[t].must_cancel
       THEN tasks' = [tasks EXCEPT ![t] = EndAs(t, "cancelled")]
       ELSE tasks' = [tasks EXCEPT ![t].pc = "sleeping",
                                   ![t].last = IF ok THEN "ok" ELSE "failed"]
  /\ UNCHANGED <<auto_signal_running, auto_signal_task, chat_id_global,
                 handler, scan_vars, cls_vars>>

\* asyncio.sleep(300) elapses, or the pending cancellation is delivered
loop_wake(t) ==
  /\ ~Blocked
  /\ tasks[t].pc = "sleeping"
  /\ IF tasks[t].must_cancel
       THEN tasks' = [tasks EXCEPT ![t] = EndAs(t, "cancelled")]
       ELSE loop_iterate(t)
  /\ UNCHANGED <<auto_signal_running, auto_signal_task, chat_id_global,
                 handler, scan_vars, cls_vars>>

Next ==
  \/ \E c \in Chats : start(c)
  \/ \E ok \in BOOLEAN : start_reply(ok)
  \/ stop
  \/ \E ok \in BOOLEAN : stop_reply(ok)
  \/ signal
  \/ \E ok \in BOOLEAN : signal_reply(ok)
  \/ signal_scanned
  \/ \E t \in TaskIds : loop_start(t)
  \/ \E t \in TaskIds : loop_scanned(t)
  \/ \E t \in TaskIds, ok \in BOOLEAN : loop_sent(t, ok)
  \/ \E t \in TaskIds : loop_wake(t)

Spec == Init /\ [][Next]_vars

\* every scan ends (each request has timeout=10); the event loop runs every
\* ready task once the callback before it has returned, every send returns
\* or raises, and every sleep elapses
LoopStep ==
  \E t \in TaskIds :
    \/ loop_start(t)
    \/ loop_scanned(t)
    \/ \E ok \in BOOLEAN : loop_sent(t, ok)
    \/ loop_wake(t)

Fairness == WF_vars(signal_scanned) /\ SF_vars(LoopStep)

FairSpec == Init /\ [][Next]_vars /\ Fairness

\* ================================================================ claims

Stopped(t) == ~auto_signal_running \/ tasks[t].must_cancel

C2_LoopSurvivesFailures ==
  \A t \in TaskIds : \A k \in BOOLEAN :
    /\ (tasks[t].pc = "sending" /\ ~Stopped(t))
         ~> (Stopped(t) \/ tasks[t].pc = "sleeping")
    /\ (tasks[t].pc = "sleeping" /\ tasks[t].tick = k /\ ~Stopped(t))
         ~> (Stopped(t) \/ (/\ tasks[t].pc \in {"sending", "sleeping"}
                            /\ tasks[t].tick # k))

\* a loop whose last iteration failed is delivering the next report
C2_Witness ==
  \E t \in TaskIds :
    /\ tasks[t].pc = "sending" /\ ~Stopped(t)
    /\ tasks[t].last = "failed"

\* ---------------------------------------------------------------- C3
\* C3: a loop that was in its interval wait when /stop found the scheduler
\* running never begins another iteration: its next step ends it. The flag
\* is false when that /stop reaches its reply and only a /start that found
\* it false sets it again.
C3_StopInWaitEndsLoop ==
  [][
    /\ \A t \in TaskIds :
         tasks[t].halted =>
           \/ tasks'[t].pc = "cancelled"
           \/ tasks'[t].pc = "sleeping" /\ tasks'[t].tick = tasks[t].tick
    /\ (handler'.pc = "reply_stopped") => ~auto_signal_running'
    /\ (~auto_signal_running /\ auto_signal_running')
         => (handler'.kind = "start" /\ handler'.pc = "reply_started")
  ]_vars

\* /stop has returned and the loop it caught in the wait is cancelled
C3_Witness ==
  /\ handler.kind = "stop" /\ handler.pc = "done"
  /\ ~auto_signal_running
  /\ \E t \in TaskIds : tasks[t].halted /\ tasks[t].pc = "cancelled"

\* ---------------------------------------------------------------- C4
\* C4: when a /stop that found the scheduler running has returned, the flag
\* is false, auto_signal_task is None and no loop is live.
C4_StopDiscardsHandle ==
  (handler.kind = "stop" /\ handler.pc = "done" /\ handler.found_running)
    => /\ ~auto_signal_running
       /\ auto_signal_task = None
       /\ LiveLoops = {}

\* ---------------------------------------------------------------- C5
\* C5: a /start that finds the scheduler running changes none of
\* auto_signal_running, auto_signal_task and chat_id_global, neither before
\* nor after its "already running" reply.
C5_StartWhileRunningIsNoOp ==
  [][
    /\ (auto_signal_running /\ handler' # handler /\ handler'.kind = "start"
          /\ handler'.pc = "reply_already")
         => UNCHANGED <<auto_signal_running, auto_signal_task, chat_id_global>>
    /\ (handler.kind = "start" /\ handler.pc = "reply_already")
         => UNCHANGED <<auto_signal_running, auto_signal_task, chat_id_global>>
  ]_vars

\* ---------------------------------------------------------------- C6
\* C6: when a /start dispatched right after another /start has returned,
\* exactly one loop is live and the second call found the scheduler running
\* (it answered "already running" and created no task).
C6_TwoStartsOneLoop ==
  (handler.kind = "start" /\ handler.pc = "done" /\ handler.after_start)
    => /\ Cardinality(LiveLoops) = 1
       /\ handler.found_running

\* ---------------------------------------------------------------- C7
\* C7: when every request of a scan either fails or returns a full window,
\* the scan returns a report with one entry per configured pair in configured
\* order; a failed pair's entry is NoData, and every other entry is a real
\* signal, the one the pair gets when the failed requests succeed instead.
FullOrFailed(r) == ~r.ok \/ r.n = Limit

Repaired(responses) ==
  [i \in 1..Len(pairs) |-> IF responses[i].ok THEN responses[i] ELSE FullBelow]

C7_ScanIsolatesFetchFailures ==
  (scan_result.kind # NotRun /\ \A i \in 1..Len(pairs) : FullOrFailed(feeds[i]))
    => /\ scan_result.kind = "report"
       /\ Len(scan_result.entries) = Len(pairs)
       /\ \A i \in 1..Len(pairs) :
            /\ scan_result.entries[i][1] = pairs[i][1]
            /\ ~feeds[i].ok => scan_result.entries[i][2] = NoData
            /\ feeds[i].ok =>
                 /\ scan_result.entries[i][2] \in
                      {StrongBuy, StrongSell, WeakBuy, WeakSell, Neutral}
                 /\ scan_result.entries[i][2] =
                      analyze_all_pairs(Repaired(feeds)).entries[i][2]

\* one of the seven requests failed, the other six returned full windows
C7_Witness ==
  /\ scan_result.kind = "report"
  /\ \A i \in 1..Len(pairs) : FullOrFailed(feeds[i])
  /\ Cardinality({i \in 1..Len(pairs) : ~feeds[i].ok}) = 1
  /\ Cardinality({i \in 1..Len(pairs) : scan_result.entries[i][2] = NoData}) = 1

\* ---------------------------------------------------------------- C8
\* C8: a scan always returns a report with one entry per pair, and the entry
\* of a pair whose request returned between 1 and max(EmaWindow, BandWindow) - 1
\* candles is NoData.
MaxWindow == IF EmaWindow > BandWindow THEN EmaWindow ELSE BandWindow

C8_ShortWindowIsNoData ==
  (scan_result.kind # NotRun)
    => /\ scan_result.kind = "report"
       /\ Len(scan_result.entries) = Len(pairs)
       /\ \A i \in 1..Len(pairs) :
            (feeds[i].ok /\ feeds[i].n >= 1 /\ feeds[i].n < MaxWindow)
              => scan_result.entries[i][2] = NoData

\* ---------------------------------------------------------------- C9
\* C9: whenever generate_signal returns for a frame whose latest or previous
\* row lacks its EMA or its band values, it returns NoData (never one of the
\* five other signals).
RowDefined(row) == row >= EmaWindow /\ row >= BandWindow

C9_UndefinedSnapshotIsNoData ==
  (/\ sig \notin {NotRun, IndexError}
   /\ ~RowDefined(df.n) \/ ~RowDefined(df.n - 1))
    => sig = NoData

\* --------------------------------------------------------------- C10
\* C10: when both rows have their indicators, an upward crossing of the EMA
\* gives StrongBuy and a downward crossing StrongSell, wherever the latest
\* close lies relative to the bands.
C10_CrossingBeatsBands ==
  (sig # NotRun /\ RowDefined(df.n) /\ RowDefined(df.n - 1))
    => /\ (df.close_latest > df.ema_latest /\ df.close_prev < df.ema_prev)
            => sig = StrongBuy
       /\ (df.close_latest < df.ema_latest /\ df.close_prev > df.ema_prev)
            => sig = StrongSell

\* an upward crossing whose latest close also lies between band centre and
\* upper band
C10_Witness ==
  /\ sig = StrongBuy
  /\ RowDefined(df.n) /\ RowDefined(df.n - 1)
  /\ df.close_latest > df.bb_bbm /\ df.close_latest < df.bb_bbh

\* --------------------------------------------------------------- C11
\* C11: when both rows have their indicators and the closes do not cross the
\* EMA, the classification is exactly one of the three band outcomes:
\* WeakBuy iff the latest close lies strictly between band centre and upper
\* band, WeakSell iff it lies strictly between lower band and band centre,
\* Neutral in every other case. A close equal to the EMA in either row is not
\* a crossing and never gives a Strong signal.
UpwardCross   == df.close_latest > df.ema_latest /\ df.close_prev < df.ema_prev
DownwardCross == df.close_latest < df.ema_latest /\ df.close_prev > df.ema_prev
InUpperHalf   == df.bb_bbm < df.close_latest /\ df.close_latest < df.bb_bbh
InLowerHalf   == df.bb_bbl < df.close_latest /\ df.close_latest < df.bb_bbm

C11_BandsDecideWithoutCrossing ==
  (sig # NotRun /\ RowDefined(df.n) /\ RowDefined(df.n - 1))
    => /\ (~UpwardCross /\ ~DownwardCross)
            => /\ sig \in {WeakBuy, WeakSell, Neutral}
               /\ sig = WeakBuy  <=> InUpperHalf
               /\ sig = WeakSell <=> InLowerHalf
               /\ sig = Neutral  <=> (~InUpperHalf /\ ~InLowerHalf)
       /\ (df.close_latest = df.ema_latest \/ df.close_prev = df.ema_prev)
            => sig \notin {StrongBuy, StrongSell}

\* the latest close sits on the EMA and on the upper band, above the centre,
\* after a close below the EMA: neither a crossing nor WeakBuy
C11_Witness ==
  /\ sig = Neutral
  /\ RowDefined(df.n) /\ RowDefined(df.n - 1)
  /\ df.close_latest = df.ema_latest /\ df.close_prev < df.ema_prev
  /\ df.close_latest = df.bb_bbh /\ df.close_latest > df.bb_bbm

\* --------------------------------------------------------------- C12
\* C12: a /stop that finds the scheduler not running changes nothing: flag,
\* task handle, chat and every task stay as they are, no task is cancelled,
\* and the handler goes to the "not running" reply; nothing changes either
\* while that reply is awaited. A second /stop after a first therefore
\* leaves the state the first one left.
StopBegins ==
  /\ handler' # handler
  /\ handler'.kind = "stop"
  /\ handler'.pc \in {"reply_stopped", "reply_not_running"}

C12_StopWhileIdleIsNoOp ==
  [][
    /\ (StopBegins /\ ~auto_signal_running)
         => /\ handler'.pc = "reply_not_running"
            /\ UNCHANGED <<auto_signal_running, auto_signal_task,
                           chat_id_global, tasks>>
    /\ (handler.kind = "stop" /\ handler.pc = "reply_not_running")
         => /\ UNCHANGED <<auto_signal_running, auto_signal_task,
                           chat_id_global>>
            /\ \A t \in TaskIds :
                 tasks'[t].must_cancel => tasks[t].must_cancel
  ]_vars

\* a /stop that found the flag false has returned, after an earlier /stop
\* cancelled a loop
C12_Witness ==
  /\ handler.kind = "stop" /\ handler.pc = "done" /\ ~handler.found_running
  /\ ~auto_signal_running
  /\ auto_signal_task # None
  /\ tasks[auto_signal_task].pc = "cancelled"

\* --------------------------------------------------------------- C13
\* C13: the flag, the task handle and the chat are written by /start and
\* /stop only: every step that changes one of them is a step of a /start or
\* /stop handler, so the steps of /signal and of the loop leave all three
\* unchanged. /signal is accepted whenever the dispatcher is free, whether
\* the flag is set or not.
C13_OnlyStartAndStopWrite ==
  [][
    /\ (<<auto_signal_running, auto_signal_task, chat_id_global>>'
          # <<auto_signal_running, auto_signal_task, chat_id_global>>)
         => (handler' # handler /\ handler'.kind \in {"start", "stop"})
    /\ HandlerFree => ENABLED signal
  ]_vars

\* a manual scan has produced its report while the scheduler is running and
\* its loop, after an iteration, is in the interval wait
C13_Witness ==
  /\ handler.kind = "signal" /\ handler.pc = "reply_results"
  /\ auto_signal_running
  /\ \E t \in TaskIds : Live(t) /\ tasks[t].pc = "sleeping"

\* --------------------------------------------------------------- C14
\* C14: /stop never interrupts an iteration whose scan has begun: a loop that
\* is scanning or delivering goes on to the end of the delivery (and from
\* there to the interval wait); it does not end in between.
C14_StopNeverInterruptsIteration ==
  [][
    \A t \in TaskIds :
      tasks[t].pc \in {"scanning", "sending"}
        => tasks'[t].pc \in {"scanning", "sending", "sleeping"}
  ]_vars

\* --------------------------------------------------------------- C15
\* C15: whenever no /start or /stop handler is between its first statement
\* and its return, the flag is set iff exactly one loop is live.
NoStartOrStopMidExecution ==
  handler.kind \in {"start", "stop"} => handler.pc \in {"done", "raised"}

C15_RunningIffOneLiveLoop ==
  NoStartOrStopMidExecution
    => (auto_signal_running <=> Cardinality(LiveLoops) = 1)

\* --------------------------------------------------------------- C16
\* C16: when a loop begins to deliver a report, the chat it sends to is the
\* chat recorded in chat_id_global at that moment.
C16_DeliveryGoesToRecordedChat ==
  [][
    \A t \in TaskIds :
      (tasks[t].pc # "sending" /\ tasks'[t].pc = "sending")
        => tasks'[t].chat_id = chat_id_global'
  ]_vars

\* --------------------------------------------------------------- C17
\* C17: a /stop that finds the scheduler running leaves no loop live, and a
\* loop that is cancelled or has ended never takes another step of an
\* iteration: it begins no scan and completes no delivery, also after a
\* later /start has set the flag again. Only the loop of that later /start
\* iterates.
C17_StoppedLoopNeverIteratesAgain ==
  [][
    /\ (StopBegins /\ auto_signal_running) => LiveLoops' = {}
    /\ \A t \in TaskIds :
         /\ tasks[t].must_cancel
              => tasks'[t].pc \in {tasks[t].pc, "cancelled"}
         /\ tasks[t].pc \in {"done", "cancelled"}
              => tasks'[t].pc = tasks[t].pc
  ]_vars

\* the first loop has ended by cancellation and the loop of a later /start
\* is delivering a report
C17_Witness ==
  /\ auto_signal_running
  /\ \E t1, t2 \in TaskIds :
       /\ tasks[t1].pc = "cancelled"
       /\ Live(t2) /\ tasks[t2].pc = "sending"

\* --------------------------------------------------------------- C18
\* C18: the iterations of one loop follow one another: a loop begins a scan
\* only from its first scheduling or from the interval wait, never while a
\* delivery is in flight; a scan is followed by its delivery or, when it
\* raised, by the wait; a delivery is followed by the wait unless the loop
\* is cancelled.
C18_IterationsAreSerialized ==
  [][
    \A t \in TaskIds :
      /\ (tasks[t].pc # "scanning" /\ tasks'[t].pc = "scanning")
           => tasks[t].pc \in {"created", "sleeping"}
      /\ tasks[t].pc = "scanning"
           => tasks'[t].pc \in {"scanning", "sending", "sleeping"}
      /\ tasks[t].pc = "sending"
           => tasks'[t].pc \in {"sending", "sleeping", "cancelled"}
  ]_vars

\* a loop is in the scan of its second iteration (tick alternates from
\* iteration to iteration and is TRUE in the first)
C18_Witness ==
  \E t \in TaskIds : tasks[t].pc = "scanning" /\ ~tasks[t].tick

\* --------------------------------------------------------------- C19
\* C19: a manual scan and an automatic scan do not wait for each other: while
\* a loop is inside its scan, a /signal handler whose first reply is out can
\* go on to its own scan, and while the /signal handler is inside its scan,
\* a loop that is due (newly created or in the interval wait) can begin its
\* iteration.
AutomaticScanInProgress == \E t \in TaskIds : tasks[t].pc = "scanning"
ManualScanInProgress    == handler.kind = "signal" /\ handler.pc = "scanning"

C19_ScansDoNotWaitForEachOther ==
  /\ (/\ AutomaticScanInProgress
      /\ handler.kind = "signal" /\ handler.pc = "reply_fetching")
       => ENABLED signal_reply(TRUE)
  /\ ManualScanInProgress
       => \A t \in TaskIds :
            (Live(t) /\ tasks[t].pc \in {"created", "sleeping"})
              => ENABLED (loop_start(t) \/ loop_wake(t))

====
